---- MODULE Spec2Model ----
(***************************************************************************)
(* A model of regalis' src/model.rs: the chess Game (turn marker and 8x8   *)
(* board of Piece values), the per-piece legality predicates stored in     *)
(* each Piece as a function pointer, Game::new and the run_game loop.      *)
(*                                                                         *)
(* Two specifications share the variables:                                 *)
(*   Spec       the game loop, one step per statement group of run_game;   *)
(*   SpecValid  one call piece.isMoveValid(piece, movement) on a piece of  *)
(*              the new-game board and a Move drawn from a bounded set.    *)
(*                                                                         *)
(* Coordinates are i8. An i8 operation that overflows panics in a build    *)
(* with overflow checks and wraps in a build without them: the predicates  *)
(* below give the value of the wrapping build, the ...Overflows operators  *)
(* say when the checking build panics instead of returning.                *)
(***************************************************************************)
EXTENDS Integers, Sequences, FiniteSets

VARIABLES turn, state, pc, user_input, piece, movement, called, result, panicked

vars == <<turn, state, pc, user_input, piece, movement, called, result, panicked>>

\* const BOARD_DIMENSIONS: usize = 8
BOARD_DIMENSIONS == 8

\* How far beyond either edge of the board a Move's end may lie in SpecValid.
\* The differences stay inside the i8 range; the knight's sum of squares
\* leaves it for the longest diagonals that end below the board.
MoveMargin == 1

\* the range of i8
InI8(n) == -128 <= n /\ n <= 127

\* an integer wrapped to i8
I8(n) == ((n + 128) % 256) - 128

\* one of the subtractions end - start leaves i8
EndMinusStartOverflows(m) ==
    ~InI8(m.end.x - m.start.x) \/ ~InI8(m.end.y - m.start.y)

\* one of the subtractions start - end leaves i8
StartMinusEndOverflows(m) ==
    ~InI8(m.start.x - m.end.x) \/ ~InI8(m.start.y - m.end.y)

Squares == 0 .. (BOARD_DIMENSIONS - 1)

\* i8::abs, wrapping
Abs(n) == IF n < 0 THEN I8(-n) ELSE n

\* struct Position { x, y }
Position(x, y) == [x |-> x, y |-> y]

\* struct Move { start, end }
Move(start, end) == [start |-> start, end |-> end]

\* struct Piece; isMoveValid holds the name of the function the pointer names
Piece(boardRep, captured, firstMove, color, position, isMoveValid) ==
    [boardRep |-> boardRep, captured |-> captured, firstMove |-> firstMove,
     color |-> color, position |-> position, isMoveValid |-> isMoveValid]

(***************************************************************************)
(* The legality predicates                                                 *)
(***************************************************************************)

\* the test every predicate but the pawn's makes first: only the upper edge
OffBoardEnd(m) ==
    m.end.x >= BOARD_DIMENSIONS \/ m.end.y >= BOARD_DIMENSIONS

isPawnMoveValid(pawn, m) ==
    IF pawn.captured THEN FALSE
    ELSE LET y0 == I8(m.end.y - m.start.y)
             y  == IF pawn.color = "Black" THEN I8(-y0) ELSE y0
             x  == I8(m.end.x - m.start.x)
         IN  IF ((y = 1) \/ (y = 2 /\ pawn.firstMove)) /\ x = 0 THEN TRUE
             ELSE IF OffBoardEnd(m) THEN FALSE
             ELSE FALSE

isRookMoveValid(rook, m) ==
    IF rook.captured THEN FALSE
    ELSE IF OffBoardEnd(m) THEN FALSE
    ELSE LET x == I8(m.end.x - m.start.x)
             y == I8(m.end.y - m.start.y)
         IN  IF x # 0 /\ y # 0 THEN FALSE ELSE TRUE

isBishopMoveValid(bishop, m) ==
    IF bishop.captured THEN FALSE
    ELSE IF OffBoardEnd(m) THEN FALSE
    ELSE LET x == I8(m.end.x - m.start.x)
             y == I8(m.end.y - m.start.y)
         IN  IF Abs(x) # Abs(y) THEN FALSE ELSE TRUE

\* a knight predicate that keeps only the one-norm test
isKnightMoveValidOneNorm(knight, m) ==
    IF knight.captured THEN FALSE
    ELSE IF OffBoardEnd(m) THEN FALSE
    ELSE LET x == I8(m.start.x - m.end.x)
             y == I8(m.start.y - m.end.y)
             oneNorm == I8(Abs(x) + Abs(y))
         IN  oneNorm = 3

isKnightMoveValid(knight, m) ==
    IF knight.captured THEN FALSE
    ELSE IF OffBoardEnd(m) THEN FALSE
    ELSE LET x == I8(m.start.x - m.end.x)
             y == I8(m.start.y - m.end.y)
             oneNorm == I8(Abs(x) + Abs(y))
             twoNormSquare == I8(I8(x * x) + I8(y * y))
         IN  IF oneNorm = 3 /\ twoNormSquare = 5 THEN TRUE ELSE FALSE

\* isPawnMoveValid overflows: end - start, or the negation of y for Black
isPawnMoveValidOverflows(pawn, m) ==
    /\ ~pawn.captured
    /\ \/ EndMinusStartOverflows(m)
       \/ pawn.color = "Black" /\ m.end.y - m.start.y = -128

\* isRookMoveValid overflows: end - start
isRookMoveValidOverflows(rook, m) ==
    /\ ~rook.captured
    /\ ~OffBoardEnd(m)
    /\ EndMinusStartOverflows(m)

\* isBishopMoveValid overflows: end - start, or abs of -128
isBishopMoveValidOverflows(bishop, m) ==
    /\ ~bishop.captured
    /\ ~OffBoardEnd(m)
    /\ \/ EndMinusStartOverflows(m)
       \/ m.end.x - m.start.x = -128
       \/ m.end.y - m.start.y = -128

\* isKnightMoveValid overflows: start - end, an abs, the sum of the abs,
\* a square or the sum of the squares
isKnightMoveValidOverflows(knight, m) ==
    /\ ~knight.captured
    /\ ~OffBoardEnd(m)
    /\ LET x == m.start.x - m.end.x
           y == m.start.y - m.end.y
       IN  \/ StartMinusEndOverflows(m)
           \/ x = -128 \/ y = -128
           \/ ~InI8(Abs(x) + Abs(y))
           \/ ~InI8(x * x) \/ ~InI8(y * y)
           \/ ~InI8(x * x + y * y)

\* isQueenMoveValid overflows: end - start, or the -y of the last test,
\* which is reached only past the rank, file and x == y returns
isQueenMoveValidOverflows(queen, m) ==
    /\ ~queen.captured
    /\ ~OffBoardEnd(m)
    /\ LET x == m.end.x - m.start.x
           y == m.end.y - m.start.y
       IN  \/ EndMinusStartOverflows(m)
           \/ y = -128 /\ x # 0 /\ x # y

\* isKingMoveValid overflows: end - start
isKingMoveValidOverflows(king, m) ==
    /\ ~king.captured
    /\ ~OffBoardEnd(m)
    /\ EndMinusStartOverflows(m)

isQueenMoveValid(queen, m) ==
    IF queen.captured THEN FALSE
    ELSE IF OffBoardEnd(m) THEN FALSE
    ELSE LET x == I8(m.end.x - m.start.x)
             y == I8(m.end.y - m.start.y)
         IN  IF x # 0 /\ y = 0 THEN TRUE
             ELSE IF x = 0 /\ y # 0 THEN TRUE
             ELSE IF x = y THEN TRUE
             ELSE IF x = I8(-y) THEN TRUE
             ELSE FALSE

isKingMoveValid(king, m) ==
    IF king.captured THEN FALSE
    ELSE IF OffBoardEnd(m) THEN FALSE
    ELSE LET x == I8(m.end.x - m.start.x)
             y == I8(m.end.y - m.start.y)
         IN  IF x > 1 \/ y > 1 THEN FALSE ELSE TRUE

emptyPieceMove(empty, emptyMove) == FALSE

\* the call (p.isMoveValid)(p, m) through the stored function pointer
CallIsMoveValid(p, m) ==
    CASE p.isMoveValid = "isPawnMoveValid"   -> isPawnMoveValid(p, m)
      [] p.isMoveValid = "isRookMoveValid"   -> isRookMoveValid(p, m)
      [] p.isMoveValid = "isBishopMoveValid" -> isBishopMoveValid(p, m)
      [] p.isMoveValid = "isKnightMoveValid" -> isKnightMoveValid(p, m)
      [] p.isMoveValid = "isQueenMoveValid"  -> isQueenMoveValid(p, m)
      [] p.isMoveValid = "isKingMoveValid"   -> isKingMoveValid(p, m)
      [] OTHER                               -> emptyPieceMove(p, m)

\* the call (p.isMoveValid)(p, m) overflows
CallOverflows(p, m) ==
    CASE p.isMoveValid = "isPawnMoveValid"   -> isPawnMoveValidOverflows(p, m)
      [] p.isMoveValid = "isRookMoveValid"   -> isRookMoveValidOverflows(p, m)
      [] p.isMoveValid = "isBishopMoveValid" -> isBishopMoveValidOverflows(p, m)
      [] p.isMoveValid = "isKnightMoveValid" -> isKnightMoveValidOverflows(p, m)
      [] p.isMoveValid = "isQueenMoveValid"  -> isQueenMoveValidOverflows(p, m)
      [] p.isMoveValid = "isKingMoveValid"   -> isKingMoveValidOverflows(p, m)
      [] OTHER                               -> FALSE

(***************************************************************************)
(* Game::new                                                               *)
(***************************************************************************)

\* the placeholder every cell is first filled with
EmptyPiece == Piece("_", TRUE, FALSE, "Empty", Position(-1, -1), "emptyPieceMove")

WhitePawn(file) == Piece("P", FALSE, TRUE, "White", Position(1, file), "isPawnMoveValid")

BlackPawn(file) == Piece("p", FALSE, TRUE, "Black", Position(6, file), "isPawnMoveValid")

\* state[0][0..7] as the eight assignments write it
WhiteBackRank ==
    [file \in Squares |->
       CASE file = 0 -> Piece("R", FALSE, TRUE, "White", Position(0, 0), "isRookMoveValid")
         [] file = 1 -> Piece("N", FALSE, TRUE, "White", Position(0, 1), "isKnightMoveValid")
         [] file = 2 -> Piece("B", FALSE, TRUE, "White", Position(0, 2), "isRookMoveValid")
         [] file = 3 -> Piece("Q", FALSE, TRUE, "White", Position(0, 3), "isQueenMoveValid")
         [] file = 4 -> Piece("K", FALSE, TRUE, "White", Position(0, 4), "isKingMoveValid")
         [] file = 5 -> Piece("B", FALSE, TRUE, "White", Position(0, 5), "isBishopMoveValid")
         [] file = 6 -> Piece("N", FALSE, TRUE, "White", Position(0, 6), "isKnightMoveValid")
         [] file = 7 -> Piece("R", FALSE, TRUE, "White", Position(0, 7), "isRookMoveValid")]

\* state[7][0..7] as the eight assignments write it (position.x is 0 in each)
BlackBackRank ==
    [file \in Squares |->
       CASE file = 0 -> Piece("r", FALSE, TRUE, "Black", Position(0, 0), "isRookMoveValid")
         [] file = 1 -> Piece("n", FALSE, TRUE, "Black", Position(0, 1), "isKnightMoveValid")
         [] file = 2 -> Piece("b", FALSE, TRUE, "Black", Position(0, 2), "isRookMoveValid")
         [] file = 3 -> Piece("q", FALSE, TRUE, "Black", Position(0, 3), "isQueenMoveValid")
         [] file = 4 -> Piece("k", FALSE, TRUE, "Black", Position(0, 4), "isKingMoveValid")
         [] file = 5 -> Piece("b", FALSE, TRUE, "Black", Position(0, 5), "isBishopMoveValid")
         [] file = 6 -> Piece("n", FALSE, TRUE, "Black", Position(0, 6), "isKnightMoveValid")
         [] file = 7 -> Piece("r", FALSE, TRUE, "Black", Position(0, 7), "isRookMoveValid")]

\* new_game.board.state when Game::new returns
NewState ==
    [rank \in Squares |->
       [file \in Squares |->
          CASE rank = 0 -> WhiteBackRank[file]
            [] rank = 1 -> WhitePawn(file)
            [] rank = 6 -> BlackPawn(file)
            [] rank = 7 -> BlackBackRank[file]
            [] OTHER    -> EmptyPiece]]

\* new_game.turn when Game::new returns
NewTurn == "White"

(***************************************************************************)
(* Game::run_game                                                          *)
(***************************************************************************)

\* The lines read_line can deliver, as the digits typed: nothing (end of
\* input or a bare newline), or four board coordinates.
Lines ==
    {<<>>} \cup {<<a, b, c, d>> : a \in Squares, b \in Squares, c \in Squares, d \in Squares}

\* parse_move(&self, &String) has an empty body: the board it leaves behind
parse_move(board, line) == board

\* a turn change that sends Black to Empty
NextTurnToEmpty(t) ==
    CASE t = "White" -> "Black"
      [] t = "Black" -> "Empty"
      [] OTHER       -> "Empty"

\* the match on self.turn that ends every iteration
NextTurn(t) ==
    CASE t = "White" -> "Black"
      [] t = "Black" -> "White"
      [] OTHER       -> "Empty"

\* Top of the loop body: print_board, the prompt for the side to move, and
\* a fresh String for the line.
PrintAndPrompt ==
    /\ pc = "prompt"
    /\ user_input' = <<>>
    /\ pc' = "read"
    /\ UNCHANGED <<turn, state, piece, movement, called, result, panicked>>

\* io::stdin().read_line(&mut user_input)
ReadLine ==
    /\ pc = "read"
    /\ \E line \in Lines : user_input' = line
    /\ pc' = "parse"
    /\ UNCHANGED <<turn, state, piece, movement, called, result, panicked>>

\* self.parse_move(&user_input)
ParseMove ==
    /\ pc = "parse"
    /\ state' = parse_move(state, user_input)
    /\ pc' = "turn"
    /\ UNCHANGED <<turn, user_input, piece, movement, called, result, panicked>>

\* the match on self.turn, then back to the top of the loop
ChangeTurn ==
    /\ pc = "turn"
    /\ turn' = NextTurn(turn)
    /\ pc' = "prompt"
    /\ UNCHANGED <<state, user_input, piece, movement, called, result, panicked>>

Init ==
    /\ turn = NewTurn
    /\ state = NewState
    /\ pc = "prompt"
    /\ user_input = <<>>
    /\ piece = EmptyPiece
    /\ movement = Move(Position(0, 0), Position(0, 0))
    /\ called = FALSE
    /\ result = FALSE
    /\ panicked = FALSE

Next == PrintAndPrompt \/ ReadLine \/ ParseMove \/ ChangeTurn

Spec == Init /\ [][Next]_vars

(***************************************************************************)
(* One call of a legality predicate                                        *)
(***************************************************************************)

\* the coordinates a Move's end is drawn from
EndRange == (0 - MoveMargin) .. (BOARD_DIMENSIONS - 1 + MoveMargin)

\* the Piece values Game::new stores
BoardPieces == {NewState[r][f] : r \in Squares, f \in Squares}

InitValid ==
    /\ turn = NewTurn
    /\ state = NewState
    /\ pc = "prompt"
    /\ user_input = <<>>
    /\ piece \in BoardPieces
    /\ \E sx \in Squares, sy \in Squares, ex \in EndRange, ey \in EndRange :
           movement = Move(Position(sx, sy), Position(ex, ey))
    /\ called = FALSE
    /\ result = FALSE
    /\ panicked = FALSE

\* the call returns: nothing overflows, or the build wraps
Validate ==
    /\ ~called
    /\ called' = TRUE
    /\ result' = CallIsMoveValid(piece, movement)
    /\ UNCHANGED <<turn, state, pc, user_input, piece, movement, panicked>>

\* the call panics ("attempt to ... with overflow"): an operation overflows
\* and the build checks for it; no value is returned
ValidatePanics ==
    /\ ~called
    /\ CallOverflows(piece, movement)
    /\ called' = TRUE
    /\ panicked' = TRUE
    /\ UNCHANGED <<turn, state, pc, user_input, piece, movement, result>>

NextValid == Validate \/ ValidatePanics

SpecValid == InitValid /\ [][NextValid]_vars

(***************************************************************************)
(* Vocabulary of the properties                                            *)
(***************************************************************************)

OnBoard(pos) == pos.x \in Squares /\ pos.y \in Squares

Dx(m) == m.end.x - m.start.x

Dy(m) == m.end.y - m.start.y

Sign(n) == IF n > 0 THEN 1 ELSE IF n < 0 THEN -1 ELSE 0

Max(a, b) == IF a >= b THEN a ELSE b

Occupied(board, x, y) == board[x][y].color # "Empty"

StraightLine(m) ==
    /\ m.start # m.end
    /\ Dx(m) = 0 \/ Dy(m) = 0 \/ Abs(Dx(m)) = Abs(Dy(m))

\* some square strictly between the ends of a straight-line move is occupied
PathBlocked(board, m) ==
    \E k \in 1 .. (Max(Abs(Dx(m)), Abs(Dy(m))) - 1) :
        Occupied(board, m.start.x + k * Sign(Dx(m)), m.start.y + k * Sign(Dy(m)))

\* the glyph's letter, case ignored
Letter(ch) ==
    CASE ch \in {"P", "p"} -> "p"
      [] ch \in {"R", "r"} -> "r"
      [] ch \in {"N", "n"} -> "n"
      [] ch \in {"B", "b"} -> "b"
      [] ch \in {"Q", "q"} -> "q"
      [] ch \in {"K", "k"} -> "k"
      [] OTHER             -> "_"

\* the Move a line of four coordinates names, start then end
EnteredMove(line) ==
    Move(Position(line[1], line[2]), Position(line[3], line[4]))

\* the line names a move of a pawn of the side to move that the pawn's own
\* predicate accepts
AcceptedPawnMove(board, side, line) ==
    /\ Len(line) = 4
    /\ LET m == EnteredMove(line)
           p == board[m.start.x][m.start.y]
       IN  /\ Letter(p.boardRep) = "p"
           /\ p.color = side
           /\ CallIsMoveValid(p, m)

\* the two-square advance of a pawn of the given colour from a square, along
\* the axis isPawnMoveValid measures
TwoSquareAdvance(pos, color) ==
    Move(pos, Position(pos.x, IF color = "Black" THEN pos.y - 2 ELSE pos.y + 2))

(***************************************************************************)
(* C1: whenever a piece's legality predicate accepts a move that starts on *)
(* the board, the destination is on the board (0 <= x, y < 8) and differs  *)
(* from the source.                                                        *)
(***************************************************************************)
C1_AcceptedMoveEndsOnBoardElsewhere ==
    (called /\ ~panicked /\ result /\ OnBoard(movement.start))
        => (OnBoard(movement.end) /\ movement.end # movement.start)

(***************************************************************************)
(* C2: the turn changes only in a step that applies a move: a step that    *)
(* leaves the board as it was (the entered move was rejected, or no move   *)
(* was applied) leaves the turn as it was too.                             *)
(***************************************************************************)
C2_TurnChangesOnlyWithAppliedMove ==
    [][(state' = state) => (turn' = turn)]_vars

(***************************************************************************)
(* C3: in the new-game position the pawn standing on (1,4) is allowed the  *)
(* two-square advance (1,4)->(3,4).                                        *)
(***************************************************************************)
C3_PawnTwoForwardAccepted ==
    (/\ called
     /\ ~panicked
     /\ turn = "White"
     /\ state = NewState
     /\ piece = state[1][4]
     /\ movement = Move(Position(1, 4), Position(3, 4)))
        => result

(***************************************************************************)
(* C4: a move of a rook, bishop or queen from its own square along a       *)
(* straight line with an occupied square strictly between source and       *)
(* destination is rejected (so is the rook's (0,0)->(0,4) in the new-game  *)
(* position).                                                              *)
(***************************************************************************)
C4_BlockedSliderRejected ==
    (/\ called
     /\ ~panicked
     /\ OnBoard(movement.end)
     /\ piece = state[movement.start.x][movement.start.y]
     /\ Letter(piece.boardRep) \in {"r", "b", "q"}
     /\ StraightLine(movement)
     /\ PathBlocked(state, movement))
        => ~result

(***************************************************************************)
(* C5: for an uncaptured king and on-board squares, the king's predicate   *)
(* accepts exactly the moves with |dx| <= 1, |dy| <= 1 that are not the    *)
(* zero move.                                                              *)
(***************************************************************************)
C5_KingAcceptsExactlyOneStep ==
    (/\ called
     /\ ~panicked
     /\ piece.isMoveValid = "isKingMoveValid"
     /\ ~piece.captured
     /\ OnBoard(movement.start)
     /\ OnBoard(movement.end))
        => (result <=> (/\ Abs(Dx(movement)) <= 1
                        /\ Abs(Dy(movement)) <= 1
                        /\ movement.start # movement.end))

(***************************************************************************)
(* C6: for an uncaptured knight and on-board squares, the knight's         *)
(* predicate returns (no operation overflows) and accepts exactly the      *)
(* moves with (|dx|,|dy|) = (1,2) or (2,1).                                *)
(***************************************************************************)
C6_KnightAcceptsExactlyLShape ==
    (/\ called
     /\ piece.isMoveValid = "isKnightMoveValid"
     /\ ~piece.captured
     /\ OnBoard(movement.start)
     /\ OnBoard(movement.end))
        => /\ ~panicked
           /\ result <=> (<<Abs(Dx(movement)), Abs(Dy(movement))>> \in {<<1, 2>>, <<2, 1>>})

C6_Witness ==
    /\ called
    /\ ~panicked
    /\ piece = state[0][1]
    /\ ~piece.captured
    /\ movement = Move(Position(0, 1), Position(2, 2))
    /\ result

(***************************************************************************)
(* C7: once a turn of the game loop has passed on a pawn move that the     *)
(* pawn's predicate accepted, the pawn stands on the destination with its  *)
(* firstMove flag cleared, and its two-square advance is rejected.         *)
(***************************************************************************)
C7_PawnMoveClearsFirstMove ==
    [][(pc = "turn" /\ AcceptedPawnMove(state, turn, user_input))
         => LET m == EnteredMove(user_input)
                p == state'[m.end.x][m.end.y]
            IN  /\ Letter(p.boardRep) = "p"
                /\ ~p.firstMove
                /\ ~CallIsMoveValid(p, TwoSquareAdvance(m.end, p.color))]_vars

(***************************************************************************)
(* C8: the turn is White at the start, is always White or Black (never     *)
(* Empty), and every change of turn goes to the other side.                *)
(***************************************************************************)
C8_TurnAlternates ==
    /\ turn = "White"
    /\ [](turn \in {"White", "Black"})
    /\ [][(turn' # turn) =>
            ((turn = "White" /\ turn' = "Black") \/ (turn = "Black" /\ turn' = "White"))]_vars

C8_Witness ==
    /\ turn = "White"
    /\ pc = "prompt"
    /\ Len(user_input) = 4

(***************************************************************************)
(* C9: pieces shown with the same letter (case ignored) carry the same     *)
(* legality predicate, and every piece shown as a bishop accepts only      *)
(* diagonal moves from its square.                                         *)
(***************************************************************************)
C9_SameLetterSameRule ==
    /\ \A r1 \in Squares, f1 \in Squares, r2 \in Squares, f2 \in Squares :
           Letter(state[r1][f1].boardRep) = Letter(state[r2][f2].boardRep)
               => state[r1][f1].isMoveValid = state[r2][f2].isMoveValid
    /\ \A r \in Squares, f \in Squares, ex \in Squares, ey \in Squares :
           LET m == Move(Position(r, f), Position(ex, ey))
           IN  (Letter(state[r][f].boardRep) = "b" /\ CallIsMoveValid(state[r][f], m))
                   => Abs(Dx(m)) = Abs(Dy(m))

(***************************************************************************)
(* C10: every real piece stored at state[r][f] has position (x = r, y = f).*)
(***************************************************************************)
C10_PositionMatchesCell ==
    \A r \in Squares, f \in Squares :
        state[r][f].color # "Empty" => state[r][f].position = Position(r, f)

====
